---- MODULE Spec2Model ----
\* The two-phase training run of src/src/trainer.py (class Trainer): the
\* checkpoint store (save_checkpoint, load_checkpoint, get_latest_chkpt), the
\* phase selection of train_and_evaluate_model and the epoch/step loop of
\* _train_model, together with the run's checkpoint directory on disk, which
\* outlives the process: a run may be killed and started again with the same
\* run identity.
EXTENDS Integers, Sequences, FiniteSets, TLC

\* ---------------------------------------------------------------- bounds
MaxEpochs == 2      \* training_config['epochs'] ranges over 1..MaxEpochs
MaxBatches == 2     \* len(data_loader) of a phase ranges over 1..MaxBatches
MaxInterval == 2    \* STEPS.LOG_STEP, SAVE_STEP, EVAL_STEP range over 1..MaxInterval
MaxWarmup == 2      \* STEPS.WARMUP_STEPS ranges over 0..MaxWarmup
MaxLoss == 2        \* loss.item() ranges over 1..MaxLoss
MaxRuns == 2        \* processes started with the same run identity
MaxExamples == 3    \* examples of a TEST split range over 0..MaxExamples
MaxRank == 1        \* ranks of a multi-worker run range over 0..MaxRank
MaxBatchSize == 2   \* training_config['batch_size'] ranges over 1..MaxBatchSize

\* the values loss.item() takes, and float('inf'), larger than all of them
Losses == {1, MaxLoss}
Inf == MaxLoss + 1

AUTOREGRESSIVE == "AUTOREGRESSIVE"
CLASSIFICATION == "CLASSIFICATION"
PHASE == {AUTOREGRESSIVE, CLASSIFICATION}

\* Python's None, and the exception max() raises on an empty iterable
None == [kind |-> "None"]
ValueError == [kind |-> "ValueError"]

VARIABLES
    \* configuration, fixed for all processes of the run identity
    pretrain_dataset,   \* TRUE iff self._pretrain_dataset is not None
    epochs,             \* training_config['epochs']
    len_data_loader,    \* phase -> number of batches of one epoch
    LOG_STEP, SAVE_STEP, EVAL_STEP, WARMUP_STEPS,   \* src.consts.STEPS
    rank,               \* self._rank
    len_test,           \* phase -> number of examples of the dataset's TEST split
    \* PATHS.CHECKPOINTS_DIR / relative_path, on disk
    dir_exists,         \* dir_path.exists()
    files,              \* the entries: [stem |-> decimal digits, content |-> Checkpoint]
    \* the running process
    pc,                 \* control point of train_and_evaluate_model
    checkpoint,         \* local of train_and_evaluate_model
    phase_name,         \* argument of the current _train_model call
    model, optimizer,   \* architecture.model and optimizer state
    start_epoch, epoch, i, step,    \* locals of _train_model
    best_loss,          \* self.best_loss
    metrics,            \* local of _train_model
    returned,           \* value returned by train_and_evaluate_model
    \* history (not program state)
    run,                \* number of processes started so far
    prev_exit,          \* how the process before this one ended, "none" for the first
    loaded,             \* what load_checkpoint returned to this process
    loads,              \* torch.load calls of this process
    phases,             \* phases this process has started, in order
    writes,             \* stems this process has written with torch.save, in order
    last_saved,         \* stem of the file most recently written, <<>> if none
    min_phase,          \* least loss of the batches of this phase in this process
    min_logged,         \* least loss logged by this process (step % LOG_STEP = 0)
    reached,            \* <<phase, step>> of every batch this process has trained
    evals,              \* <<phase, step>> of every _evaluate_model call of this process
    scalars,            \* writer.add_scalar calls of this process
    \* one call of _evaluate_model
    eval_pc,            \* control point of _evaluate_model, "idle" outside a call
    batch_size,         \* training_config['batch_size']
    examples,           \* dataset.get_dataset(split): [predicted, label] of each example
    test_loss, correct, total,      \* locals of _evaluate_model
    batches_done,       \* batches the for loop has taken from data_loader
    batch_losses,       \* history: loss.item() of every batch, in order
    eval_result,        \* value returned by _evaluate_model
    \* the worker processes of one multi-worker run
    worker,             \* rank -> control point and locals of that rank's process
    dir_at_start,       \* history: dir_path.exists() when the workers were started
    files_at_start      \* history: the entries when the workers were started

cfgvars == <<pretrain_dataset, epochs, len_data_loader, LOG_STEP, SAVE_STEP,
             EVAL_STEP, WARMUP_STEPS, rank, len_test>>
diskvars == <<dir_exists, files>>
procvars == <<pc, checkpoint, phase_name, model, optimizer, start_epoch, epoch,
              i, step, best_loss, metrics, returned>>
histvars == <<run, prev_exit, loaded, loads, phases, writes, last_saved, min_phase,
              min_logged, reached, evals, scalars>>
evalvars == <<eval_pc, batch_size, examples, test_loss, correct, total,
              batches_done, batch_losses, eval_result>>
workervars == <<worker, dir_at_start, files_at_start>>
vars == <<cfgvars, diskvars, procvars, histvars, evalvars, workervars>>

\* ------------------------------------------------------------- helpers
\* builtin min(a, b)
Min(a, b) == IF b < a THEN b ELSE a

\* f'{step}.pth': the stem is the decimal representation of step
RECURSIVE FileName(_)
FileName(n) == IF n < 10 THEN <<n>> ELSE FileName(n \div 10) \o <<n % 10>>

\* int(x.stem)
RECURSIVE StemInt(_)
StemInt(stem) ==
    IF Len(stem) = 1 THEN stem[1]
    ELSE 10 * StemInt(SubSeq(stem, 1, Len(stem) - 1)) + stem[Len(stem)]

\* max(entries, key=lambda x: int(x.stem)) over a non-empty iterable, taken in
\* whatever order iterdir() yields the entries
RECURSIVE max_by_stem(_)
max_by_stem(entries) ==
    LET x == CHOOSE e \in entries : TRUE
    IN  IF entries = {x} THEN x
        ELSE LET m == max_by_stem(entries \ {x})
             IN  IF StemInt(x) > StemInt(m) THEN x ELSE m

min_by_stem(entries) ==
    CHOOSE x \in entries : \A y \in entries : StemInt(x) <= StemInt(y)

\* max(dir_path.iterdir(), key=...)
latest_entry(entries) == max_by_stem(entries)

\* dir_path.iterdir(): the stems of the entries
iterdir(fs) == {f.stem : f \in fs}

\* torch.load(path)
torch_load(fs, stem) == (CHOOSE f \in fs : f.stem = stem).content

\* torch.save(checkpoint, path): creates the file or replaces its content
torch_save(fs, stem, ck) ==
    {f \in fs : f.stem # stem} \cup {[stem |-> stem, content |-> ck]}

\* Trainer.get_latest_chkpt
get_latest_chkpt(exists, fs) ==
    IF exists
    THEN IF iterdir(fs) = {} THEN ValueError
         ELSE [kind |-> "Path", stem |-> latest_entry(iterdir(fs))]
    ELSE None

\* Trainer.load_checkpoint
load_checkpoint(exists, fs) ==
    LET checkpoint_path == get_latest_chkpt(exists, fs)
    IN  IF checkpoint_path.kind = "Path"
        THEN torch_load(fs, checkpoint_path.stem)
        ELSE checkpoint_path

\* Checkpoint(...) as built by Trainer.save_checkpoint
Checkpoint(m, o, e, s, best, during_pretraining) ==
    [epoch |-> e, step |-> s, model_state_dict |-> m, optimizer_state_dict |-> o,
     best_loss |-> best, during_pretraining |-> during_pretraining]

\* architecture.initialize_model(dataset_wrapper): a new model built for the
\* phase's dataset; updates counts the optimizer steps applied to it
fresh_model(phase) == [built_for |-> phase, updates |-> 0]
\* self.get_optimizer(architecture.model)
fresh_optimizer == [updates |-> 0]

\* the condition of the if in train_and_evaluate_model
pretrain_on_any_checkpoint(ck, pretrain) == ck # None \/ pretrain

pretrain_first(ck, pretrain) ==
    (ck # None /\ ck.during_pretraining) \/ pretrain

\* Trainer.is_master_process
every_rank_is_master == TRUE

is_master_process == rank = 0

\* step += 1
reset_each_epoch(s, batch) == IF batch = 0 THEN 1 ELSE s + 1

next_step(s, batch) == s + 1

\* self.best_loss = min(self.best_loss, loss.item()), under step % LOG_STEP == 0
last_logged_loss(best, loss, s) == IF s % LOG_STEP = 0 THEN loss ELSE best

min_every_step(best, loss, s) == Min(best, loss)

logged_best_loss(best, loss, s) ==
    IF s % LOG_STEP = 0 THEN Min(best, loss) ELSE best

\* the gates of save_checkpoint and of _evaluate_model
save_without_warmup(s) == s % SAVE_STEP = 0

save_due(s) == s >= WARMUP_STEPS /\ s % SAVE_STEP = 0
eval_without_warmup(s) == s % EVAL_STEP = 0

eval_due(s) == s >= WARMUP_STEPS /\ s % EVAL_STEP = 0

\* the mapping _evaluate_model returns, named by the evaluation that made it
NoMetrics == [keys |-> {}]
evaluate_model(phase, s) ==
    [keys |-> {"Test Loss", "Test Accuracy"}, phase |-> phase, step |-> s]

\* the classes a label and an argmax prediction range over
Classes == {0, 1}
Example == [predicted : Classes, label : Classes]

\* len(data_loader) of DataLoader(dataset, batch_size=...): drop_last is False,
\* the last batch may be short
drop_last_len(n, b) == n \div b

DataLoader_len(n, b) == (n + b - 1) \div b

\* the indices of the k-th batch (from 0) the DataLoader yields, in order and
\* without shuffling
batch_indices(n, b, k) == (k * b + 1) .. Min((k + 1) * b, n)

\* (predicted == labels).sum().item() over one batch
matches(data) ==
    Cardinality({k \in data : examples[k].predicted = examples[k].label})

\* a / b of two numbers, kept exact as the pair <<a, b>>
Quotient(a, b) == <<a, b>>

\* the ranks of a multi-worker run: rank in 0..world_size - 1
Ranks == 0..MaxRank

\* ------------------------------------------------------------------ Init
\* no call of _evaluate_model is followed batch by batch
NotEvaluating ==
    /\ eval_pc = "idle"
    /\ batch_size = 1
    /\ examples = <<>>
    /\ test_loss = 0 /\ correct = 0 /\ total = 0
    /\ batches_done = 0
    /\ batch_losses = <<>>
    /\ eval_result = None

NoModel == [built_for |-> "NONE", updates |-> 0]

\* Trainer.__init__ and the locals of a process that has not run yet
NewProcess ==
    /\ pc = "not_started"
    /\ checkpoint = None
    /\ phase_name = "NONE"
    /\ model = NoModel
    /\ optimizer = fresh_optimizer
    /\ start_epoch = 0 /\ epoch = 0 /\ i = 0 /\ step = 0
    /\ best_loss = Inf
    /\ metrics = NoMetrics
    /\ returned = None

\* a worker process that has not run yet: Trainer.__init__ and the locals of
\* train_and_evaluate_model and _train_model
IdleWorker ==
    [pc |-> "not_started", checkpoint |-> None, loaded |-> None,
     phase_name |-> "NONE", model |-> NoModel, optimizer |-> fresh_optimizer,
     start_epoch |-> 0, epoch |-> 0, i |-> 0, step |-> 0, best_loss |-> Inf,
     collectives |-> 0]

\* no multi-worker run is followed
NoWorkers ==
    /\ worker = [r \in Ranks |-> IdleWorker]
    /\ dir_at_start = FALSE
    /\ files_at_start = {}

\* every configuration but the rank and the TEST splits, an absent checkpoint
\* directory and a process that has not run yet
InitRun ==
    /\ pretrain_dataset \in BOOLEAN
    /\ epochs \in {1, MaxEpochs}
    /\ len_data_loader \in [PHASE -> {1, MaxBatches}]
    /\ (~pretrain_dataset => len_data_loader[AUTOREGRESSIVE] = 1)
    /\ LOG_STEP \in 1..MaxInterval
    /\ SAVE_STEP \in {1, MaxInterval}
    /\ EVAL_STEP \in {1, MaxInterval}
    /\ WARMUP_STEPS \in {0, MaxWarmup}
    /\ dir_exists = FALSE
    /\ files = {}
    /\ NewProcess
    /\ run = 1
    /\ prev_exit = "none"
    /\ loaded = None
    /\ loads = 0
    /\ phases = <<>>
    /\ writes = <<>>
    /\ last_saved = <<>>
    /\ min_phase = Inf
    /\ min_logged = Inf
    /\ reached = {}
    /\ evals = {}
    /\ scalars = 0

\* a single process (rank 0, world_size 1) whose TEST splits are not empty
Init ==
    /\ InitRun
    /\ rank = 0
    /\ len_test = [p \in PHASE |-> MaxExamples]
    /\ NotEvaluating
    /\ NoWorkers

\* --------------------------------------------------------------- actions
Running == {"not_started", "phase_start", "loop", "torch_save", "phase_end"}

\* train_and_evaluate_model up to the choice of the first phase: load_checkpoint,
\* then the if that decides whether the AUTOREGRESSIVE phase runs first
LoadAndChoosePhase ==
    /\ pc = "not_started"
    /\ LET ck == load_checkpoint(dir_exists, files)
       IN  IF ck = ValueError
           THEN /\ pc' = "crashed"
                /\ UNCHANGED <<checkpoint, phase_name, loaded, loads>>
           ELSE /\ checkpoint' = ck
                /\ loaded' = ck
                /\ loads' = IF ck # None THEN loads + 1 ELSE loads
                /\ phase_name' = IF pretrain_first(ck, pretrain_dataset)
                                 THEN AUTOREGRESSIVE ELSE CLASSIFICATION
                /\ pc' = "phase_start"
    /\ UNCHANGED <<model, optimizer, start_epoch, epoch, i, step, best_loss,
                   metrics, returned>>
    /\ UNCHANGED <<run, prev_exit, phases, writes, last_saved, min_phase, min_logged,
                   reached, evals, scalars>>
    /\ UNCHANGED <<cfgvars, diskvars, evalvars, workervars>>

\* the state _train_model restores from its checkpoint argument
restore(ck, phase) ==
    IF ck # None
    THEN [model |-> ck.model_state_dict, optimizer |-> ck.optimizer_state_dict,
          start_epoch |-> ck.epoch, step |-> ck.step, best_loss |-> ck.best_loss]
    ELSE [model |-> fresh_model(phase), optimizer |-> fresh_optimizer,
          start_epoch |-> 0, step |-> 0, best_loss |-> best_loss]

\* metrics = {} before the epoch loop
metrics_kept(m) == m

metrics_at_entry(m) == NoMetrics

\* _train_model from its entry to the head of the epoch loop
StartPhase ==
    /\ pc = "phase_start"
    /\ LET r == restore(checkpoint, phase_name)
       IN  /\ model' = r.model
           /\ optimizer' = r.optimizer
           /\ start_epoch' = r.start_epoch
           /\ step' = r.step
           /\ best_loss' = r.best_loss
           /\ epoch' = r.start_epoch
           /\ pc' = IF r.start_epoch < epochs THEN "loop" ELSE "phase_end"
    /\ i' = 0
    /\ metrics' = metrics_at_entry(metrics)
    /\ phases' = Append(phases, phase_name)
    /\ min_phase' = Inf
    /\ UNCHANGED <<checkpoint, phase_name, returned>>
    /\ UNCHANGED <<run, prev_exit, loaded, loads, writes, last_saved, min_logged,
                   reached, evals, scalars>>
    /\ UNCHANGED <<cfgvars, diskvars, evalvars, workervars>>

never_raises(phase) == FALSE

\* 100 * correct / total in _evaluate_model raises ZeroDivisionError on a split
\* without examples
evaluation_raises(phase) == len_test[phase] = 0

\* the rest of one iteration after the save_checkpoint block: the evaluation
\* gate with the scalars of the metrics, then the loop heads for i, data and
\* for epoch; sc is the number of scalars written before the evaluation
EvalAndAdvance(s, sc) ==
    IF is_master_process /\ eval_due(s) /\ evaluation_raises(phase_name)
    THEN /\ pc' = "zero_division"
         /\ scalars' = sc
         /\ UNCHANGED <<metrics, i, epoch, evals>>
    ELSE /\ IF is_master_process /\ eval_due(s)
            THEN /\ metrics' = evaluate_model(phase_name, s)
                 /\ evals' = evals \cup {<<phase_name, s>>}
                 /\ scalars' = sc + Cardinality(evaluate_model(phase_name, s).keys)
            ELSE /\ scalars' = sc
                 /\ UNCHANGED <<metrics, evals>>
         /\ IF i + 1 < len_data_loader[phase_name]
            THEN /\ i' = i + 1 /\ epoch' = epoch /\ pc' = "loop"
            ELSE IF epoch + 1 < epochs
                 THEN /\ i' = 0 /\ epoch' = epoch + 1 /\ pc' = "loop"
                 ELSE /\ i' = i /\ epoch' = epoch /\ pc' = "phase_end"

\* one batch: forward, backward, optimizer.step(), step += 1, the logging block
\* and, when a save is due, save_checkpoint up to path.parent.mkdir
TrainStep ==
    /\ pc = "loop"
    /\ \E loss \in Losses :
         LET s == next_step(step, i)
         IN  /\ step' = s
             /\ model' = [model EXCEPT !.updates = @ + 1]
             /\ optimizer' = [optimizer EXCEPT !.updates = @ + 1]
             /\ best_loss' = IF is_master_process
                             THEN logged_best_loss(best_loss, loss, s)
                             ELSE best_loss
             /\ min_phase' = Min(min_phase, loss)
             /\ min_logged' = IF s % LOG_STEP = 0
                              THEN Min(min_logged, loss) ELSE min_logged
             /\ reached' = reached \cup {<<phase_name, s>>}
             /\ LET sc == IF is_master_process /\ s % LOG_STEP = 0
                          THEN scalars + 1 ELSE scalars
                IN  IF is_master_process /\ save_due(s)
                    THEN /\ dir_exists' = TRUE
                         /\ pc' = "torch_save"
                         /\ scalars' = sc
                         /\ UNCHANGED <<metrics, i, epoch, evals>>
                    ELSE /\ EvalAndAdvance(s, sc)
                         /\ UNCHANGED dir_exists
    /\ UNCHANGED <<checkpoint, phase_name, start_epoch, returned, files>>
    /\ UNCHANGED <<run, prev_exit, loaded, loads, phases, writes, last_saved>>
    /\ UNCHANGED <<cfgvars, evalvars, workervars>>

\* the path save_checkpoint writes to
stem_of_epoch(e, s) == FileName(e)

checkpoint_stem(e, s) == FileName(s)

\* save_checkpoint from torch.save on, then the rest of the iteration
TorchSave ==
    /\ pc = "torch_save"
    /\ LET stem == checkpoint_stem(epoch, step)
           ck == Checkpoint(model, optimizer, epoch, step, best_loss,
                            phase_name = AUTOREGRESSIVE)
       IN  /\ files' = torch_save(files, stem, ck)
           /\ writes' = Append(writes, stem)
           /\ last_saved' = stem
    /\ EvalAndAdvance(step, scalars)
    /\ UNCHANGED <<checkpoint, phase_name, model, optimizer, start_epoch, step,
                   best_loss, returned, dir_exists>>
    /\ UNCHANGED <<run, prev_exit, loaded, loads, phases, min_phase, min_logged,
                   reached>>
    /\ UNCHANGED <<cfgvars, evalvars, workervars>>

\* whether train_and_evaluate_model hands its checkpoint to a later phase
keep_checkpoint(ck) == ck

discard_checkpoint(ck) == None

\* _train_model returns: after AUTOREGRESSIVE the checkpoint is dropped and
\* CLASSIFICATION is entered, after CLASSIFICATION the metrics are returned
PhaseEnd ==
    /\ pc = "phase_end"
    /\ IF phase_name = AUTOREGRESSIVE
       THEN /\ checkpoint' = discard_checkpoint(checkpoint)
            /\ phase_name' = CLASSIFICATION
            /\ pc' = "phase_start"
            /\ UNCHANGED returned
       ELSE /\ returned' = metrics
            /\ pc' = "done"
            /\ UNCHANGED <<checkpoint, phase_name>>
    /\ UNCHANGED <<model, optimizer, start_epoch, epoch, i, step, best_loss, metrics>>
    /\ UNCHANGED <<cfgvars, diskvars, histvars, evalvars, workervars>>

\* the state of a process that has not run yet: Trainer.__init__ and the
\* locals of its calls; with it the history of the process starts over
ProcessGone ==
    /\ checkpoint' = None
    /\ phase_name' = "NONE"
    /\ model' = NoModel
    /\ optimizer' = fresh_optimizer
    /\ start_epoch' = 0 /\ epoch' = 0 /\ i' = 0 /\ step' = 0
    /\ best_loss' = Inf
    /\ metrics' = NoMetrics
    /\ returned' = None
    /\ loaded' = None
    /\ loads' = 0
    /\ phases' = <<>>
    /\ writes' = <<>>
    /\ min_phase' = Inf
    /\ min_logged' = Inf
    /\ reached' = {}
    /\ evals' = {}
    /\ scalars' = 0

\* the process is terminated from outside: its memory is lost, the checkpoint
\* directory stays as it is
Kill ==
    /\ pc \in Running
    /\ pc' = "killed"
    /\ ProcessGone
    /\ UNCHANGED <<run, prev_exit, last_saved>>
    /\ UNCHANGED <<cfgvars, diskvars, evalvars, workervars>>

\* the program is started again with the same configuration and run id: a new
\* Trainer (Trainer.__init__) over the directory the earlier processes left
Rerun ==
    /\ pc \in {"killed", "crashed", "zero_division", "done"}
    /\ run < MaxRuns
    /\ run' = run + 1
    /\ prev_exit' = pc
    /\ pc' = "not_started"
    /\ ProcessGone
    /\ UNCHANGED last_saved
    /\ UNCHANGED <<cfgvars, diskvars, evalvars, workervars>>

Next ==
    \/ LoadAndChoosePhase
    \/ StartPhase
    \/ TrainStep
    \/ TorchSave
    \/ PhaseEnd
    \/ Kill
    \/ Rerun

Spec == Init /\ [][Next]_vars

\* one worker of a multi-worker run, of any rank
InitRanks ==
    /\ InitRun
    /\ rank \in 0..MaxRank
    /\ len_test = [p \in PHASE |-> MaxExamples]
    /\ NotEvaluating
    /\ NoWorkers

SpecRanks == InitRanks /\ [][Next]_vars

\* a single process, with a TEST split that has no examples
InitEmptyTest ==
    /\ InitRun
    /\ rank = 0
    /\ len_test \in [PHASE -> {0, MaxExamples}]
    /\ \E p \in PHASE : len_test[p] = 0
    /\ (~pretrain_dataset => len_test[AUTOREGRESSIVE] = MaxExamples)
    /\ NotEvaluating
    /\ NoWorkers

SpecEmptyTest == InitEmptyTest /\ [][Next]_vars

\* one iteration of the for loop of _evaluate_model: the next batch of the
\* split, its loss and its matches
EvalBatch ==
    /\ eval_pc = "for_data"
    /\ batches_done * batch_size < Len(examples)
    /\ \E loss \in Losses :
           LET data == batch_indices(Len(examples), batch_size, batches_done)
           IN  /\ test_loss' = test_loss + loss
               /\ total' = total + Cardinality(data)
               /\ correct' = correct + matches(data)
               /\ batch_losses' = Append(batch_losses, loss)
    /\ batches_done' = batches_done + 1
    /\ UNCHANGED <<eval_pc, batch_size, examples, eval_result>>
    /\ UNCHANGED <<cfgvars, diskvars, procvars, histvars, workervars>>

\* the data_loader is exhausted: accuracy = 100 * correct / total and the
\* returned mapping, or ZeroDivisionError when total is 0
EvalReturn ==
    /\ eval_pc = "for_data"
    /\ batches_done * batch_size >= Len(examples)
    /\ IF total = 0
       THEN /\ eval_pc' = "zero_division"
            /\ UNCHANGED eval_result
       ELSE /\ eval_pc' = "returned"
            /\ eval_result' =
                   ("Test Loss" :> Quotient(test_loss,
                        DataLoader_len(Len(examples), batch_size)))
                   @@ ("Test Accuracy" :> Quotient(100 * correct, total))
    /\ UNCHANGED <<batch_size, examples, test_loss, correct, total, batches_done,
                   batch_losses>>
    /\ UNCHANGED <<cfgvars, diskvars, procvars, histvars, workervars>>

NextEval ==
    \/ EvalBatch
    \/ EvalReturn

\* one call of _evaluate_model on any split of up to MaxExamples examples with
\* any batch size, its locals just initialised; the trainer around it is a
\* single process that does not move
InitEval ==
    /\ InitRun
    /\ ~pretrain_dataset
    /\ epochs = 1
    /\ len_data_loader = [p \in PHASE |-> 1]
    /\ LOG_STEP = 1 /\ SAVE_STEP = 1 /\ EVAL_STEP = 1 /\ WARMUP_STEPS = 0
    /\ rank = 0
    /\ examples \in UNION {[1..m -> Example] : m \in 0..MaxExamples}
    /\ len_test = [p \in PHASE |-> Len(examples)]
    /\ batch_size \in 1..MaxBatchSize
    /\ eval_pc = "for_data"
    /\ test_loss = 0 /\ correct = 0 /\ total = 0
    /\ batches_done = 0
    /\ batch_losses = <<>>
    /\ eval_result = None
    /\ NoWorkers

SpecEval == InitEval /\ [][NextEval]_vars

\* ---------------------------------------------- the workers of one run
\* the values loss.item() takes in a worker: one value, since the losses
\* decide nothing but the best_loss field of the checkpoints
WorkerLosses == {MaxLoss}

\* is_master_process of the worker of rank r
rank_is_master(r) == r = 0

\* the all-reduce of the gradients inside loss.backward() is blocking: the
\* worker of rank r leaves its n-th backward only when every rank has
\* entered its n-th backward
collective_done(r) ==
    \A q \in Ranks : worker[q].collectives >= worker[r].collectives

\* what follows the forward pass and the loss of one batch
without_backward(w) == "optimizer_step"

after_forward(w) == "backward"

\* the state _train_model restores into the worker from its checkpoint argument
restore_worker(w, ck, phase) ==
    IF ck # None
    THEN [w EXCEPT !.model = ck.model_state_dict,
                   !.optimizer = ck.optimizer_state_dict,
                   !.start_epoch = ck.epoch, !.epoch = ck.epoch,
                   !.step = ck.step, !.best_loss = ck.best_loss, !.i = 0]
    ELSE [w EXCEPT !.model = fresh_model(phase), !.optimizer = fresh_optimizer,
                   !.start_epoch = 0, !.epoch = 0, !.step = 0, !.i = 0]

\* the loop heads for i, data and for epoch
advance(w) ==
    IF w.i + 1 < len_data_loader[w.phase_name]
    THEN [w EXCEPT !.i = @ + 1, !.pc = "loop"]
    ELSE IF w.epoch + 1 < epochs
         THEN [w EXCEPT !.i = 0, !.epoch = @ + 1, !.pc = "loop"]
         ELSE [w EXCEPT !.pc = "phase_end"]

\* one batch up to loss.backward(): zero_grad, forward, loss
forward(w) ==
    LET next == after_forward(w)
    IN  [w EXCEPT !.pc = next,
                  !.collectives = IF next = "backward" THEN @ + 1 ELSE @]

\* _train_model up to the epoch loop
start_phase(w) ==
    LET r == restore_worker(w, w.checkpoint, w.phase_name)
    IN  [r EXCEPT !.pc = IF r.start_epoch < epochs THEN "loop" ELSE "phase_end"]

\* _train_model returns to train_and_evaluate_model
end_phase(w) ==
    IF w.phase_name = AUTOREGRESSIVE
    THEN [w EXCEPT !.checkpoint = discard_checkpoint(@),
                   !.phase_name = CLASSIFICATION, !.pc = "phase_start"]
    ELSE [w EXCEPT !.pc = "done"]

\* the worker runs on by itself, touching neither the directory nor the
\* group, until it stands in a backward or has returned
RECURSIVE run_on(_)
run_on(w) ==
    CASE w.pc = "phase_start" -> run_on(start_phase(w))
      [] w.pc = "phase_end" -> run_on(end_phase(w))
      [] w.pc = "loop" -> forward(w)
      [] OTHER -> w

\* setup(rank, world_size): the worker joins the process group
WorkerSetup(r) ==
    /\ worker[r].pc = "not_started"
    /\ worker' = [worker EXCEPT ![r].pc = "init_process_group"]
    /\ UNCHANGED <<dir_at_start, files_at_start>>
    /\ UNCHANGED <<cfgvars, diskvars, procvars, histvars, evalvars>>

\* init_process_group returns once every rank has joined; then load_checkpoint,
\* the choice of the first phase and the phase up to its first backward
WorkerLoad(r) ==
    /\ worker[r].pc = "init_process_group"
    /\ \A q \in Ranks : worker[q].pc # "not_started"
    /\ LET ck == load_checkpoint(dir_exists, files)
       IN  worker' = [worker EXCEPT ![r] =
               IF ck = ValueError
               THEN [@ EXCEPT !.pc = "crashed", !.loaded = ck]
               ELSE run_on([@ EXCEPT
                        !.pc = "phase_start", !.checkpoint = ck, !.loaded = ck,
                        !.phase_name = IF pretrain_first(ck, pretrain_dataset)
                                       THEN AUTOREGRESSIVE
                                       ELSE CLASSIFICATION])]
    /\ UNCHANGED <<dir_at_start, files_at_start>>
    /\ UNCHANGED <<cfgvars, diskvars, procvars, histvars, evalvars>>

\* the rest of the batch: backward returns, optimizer.step(), step += 1, on
\* rank 0 the logging block and save_checkpoint up to path.parent.mkdir;
\* without a save the worker runs on to its next backward
WorkerStep(r) ==
    /\ worker[r].pc \in {"backward", "optimizer_step"}
    /\ worker[r].pc = "backward" => collective_done(r)
    /\ \E loss \in WorkerLosses :
           LET w == worker[r]
               s == next_step(w.step, w.i)
               trained == [w EXCEPT
                   !.step = s,
                   !.model.updates = @ + 1,
                   !.optimizer.updates = @ + 1,
                   !.best_loss = IF rank_is_master(r)
                                 THEN logged_best_loss(@, loss, s) ELSE @]
           IN  IF rank_is_master(r) /\ save_due(s)
               THEN /\ worker' = [worker EXCEPT
                                     ![r] = [trained EXCEPT !.pc = "torch_save"]]
                    /\ dir_exists' = TRUE
                    /\ UNCHANGED files
               ELSE /\ worker' = [worker EXCEPT ![r] = run_on(advance(trained))]
                    /\ UNCHANGED diskvars
    /\ UNCHANGED <<dir_at_start, files_at_start>>
    /\ UNCHANGED <<cfgvars, procvars, histvars, evalvars>>

\* torch.save of save_checkpoint on rank 0, then on to the next backward
WorkerTorchSave(r) ==
    /\ worker[r].pc = "torch_save"
    /\ LET w == worker[r]
           ck == Checkpoint(w.model, w.optimizer, w.epoch, w.step, w.best_loss,
                            w.phase_name = AUTOREGRESSIVE)
       IN  /\ files' = torch_save(files, checkpoint_stem(w.epoch, w.step), ck)
           /\ worker' = [worker EXCEPT ![r] = run_on(advance(w))]
    /\ UNCHANGED <<dir_exists, dir_at_start, files_at_start>>
    /\ UNCHANGED <<cfgvars, procvars, histvars, evalvars>>

\* the run is terminated from outside: every worker's memory is lost, the
\* checkpoint directory stays as it is
GroupKill ==
    /\ \E r \in Ranks : worker[r].pc \notin {"killed", "crashed", "done"}
    /\ worker' = [r \in Ranks |-> [IdleWorker EXCEPT !.pc = "killed"]]
    /\ UNCHANGED <<dir_at_start, files_at_start>>
    /\ UNCHANGED <<cfgvars, diskvars, procvars, histvars, evalvars>>

\* the run is started again with the same configuration and run id, once no
\* worker of the earlier start is left
GroupRerun ==
    /\ \A r \in Ranks : worker[r].pc \in {"killed", "crashed", "done"}
    /\ run < MaxRuns
    /\ run' = run + 1
    /\ worker' = [r \in Ranks |-> IdleWorker]
    /\ dir_at_start' = dir_exists
    /\ files_at_start' = files
    /\ UNCHANGED <<prev_exit, loaded, loads, phases, writes, last_saved, min_phase,
                   min_logged, reached, evals, scalars>>
    /\ UNCHANGED <<cfgvars, diskvars, procvars, evalvars>>

NextWorkers ==
    \/ \E r \in Ranks : WorkerSetup(r)
    \/ \E r \in Ranks : WorkerLoad(r)
    \/ \E r \in Ranks : WorkerStep(r)
    \/ \E r \in Ranks : WorkerTorchSave(r)
    \/ GroupKill
    \/ GroupRerun

\* the workers of rank 0..MaxRank of one run, none started yet, over an absent
\* checkpoint directory; the workers' evaluations are not followed, so one
\* EVAL_STEP stands for all
InitWorkers ==
    /\ InitRun
    /\ rank = 0
    /\ len_test = [p \in PHASE |-> MaxExamples]
    /\ NotEvaluating
    /\ NoWorkers
    /\ EVAL_STEP = 1

SpecWorkers == InitWorkers /\ [][NextWorkers]_vars

\* ---------------------------------------------------------------- claims
\* the state right after _train_model has restored (or not) and before the
\* first batch of the phase
AtPhaseBegin == pc = "loop" /\ epoch = start_epoch /\ i = 0

\* the process has loaded (or found no) checkpoint and has started no phase yet
BeforeFirstPhase == pc = "phase_start" /\ phases = <<>>

\* _train_model's state equals what checkpoint ck holds
ResumedFrom(ck) ==
    /\ start_epoch = ck.epoch
    /\ step = ck.step
    /\ best_loss = ck.best_loss
    /\ model = ck.model_state_dict
    /\ optimizer = ck.optimizer_state_dict

\* C1: the AUTOREGRESSIVE phase is the first phase executed iff the loaded
\* checkpoint has during_pretraining = true, or a pretrain dataset is configured
\* and no checkpoint is present; otherwise CLASSIFICATION is first and resumes
\* from the loaded checkpoint's epoch, step, best_loss, model and optimizer.
C1_FirstPhaseByCheckpoint ==
    Len(phases) >= 1 =>
        /\ phases[1] = AUTOREGRESSIVE <=>
               \/ (loaded # None /\ loaded.during_pretraining)
               \/ (pretrain_dataset /\ loaded = None)
        /\ (phases = <<CLASSIFICATION>> /\ loaded # None /\ AtPhaseBegin)
               => ResumedFrom(loaded)

\* C2: whenever _train_model has restored its state from a checkpoint, the
\* phase being trained is AUTOREGRESSIVE exactly when the checkpoint's
\* during_pretraining flag is true.
C2_RestoreKeepsPhase ==
    (AtPhaseBegin /\ checkpoint # None) =>
        /\ ResumedFrom(checkpoint)
        /\ phase_name = AUTOREGRESSIVE <=> checkpoint.during_pretraining

\* C3: a loaded checkpoint with during_pretraining = true makes AUTOREGRESSIVE
\* the first phase, and the CLASSIFICATION phase that follows in the same run
\* gets no checkpoint: it begins at start epoch 0, step 0, with a new model and
\* optimizer.
C3_PretrainCheckpointConsumedOnce ==
    (loaded # None /\ loaded.during_pretraining) =>
        /\ Len(phases) >= 1 => phases[1] = AUTOREGRESSIVE
        /\ Len(phases) = 2 => phases[2] = CLASSIFICATION /\ checkpoint = None
        /\ (pc = "phase_start" /\ Len(phases) = 1) => checkpoint = None
        /\ (Len(phases) = 2 /\ AtPhaseBegin) =>
               /\ start_epoch = 0
               /\ step = 0
               /\ model = fresh_model(CLASSIFICATION)
               /\ optimizer = fresh_optimizer

C3_Witness ==
    /\ loaded # None /\ loaded.during_pretraining
    /\ Len(phases) = 2
    /\ AtPhaseBegin

\* C4: from a directory whose entries are named by integer steps, the loaded
\* checkpoint is the content of the entry with the greatest step, and a process
\* loads at most one checkpoint, before its first phase.
C4_LoadsHighestStepOnce ==
    /\ loads <= 1
    /\ (Len(phases) >= 1 /\ loaded = None) => loads = 0
    /\ (BeforeFirstPhase /\ files # {}) =>
           /\ loads = 1
           /\ checkpoint = loaded
           /\ \E f \in files :
                  /\ f.content = loaded
                  /\ \A g \in files : StemInt(g.stem) <= StemInt(f.stem)
                  /\ loaded.step = StemInt(f.stem)

C4_Witness ==
    /\ BeforeFirstPhase
    /\ Cardinality(files) >= 2
    /\ loads = 1

\* C5: with the checkpoint directory absent, and with it present but empty,
\* load_checkpoint returns None without raising and the run starts fresh: start
\* epoch 0, step 0, best_loss = +infinity.
C5_AbsentOrEmptyStartsFresh ==
    /\ (~dir_exists \/ files = {}) => pc # "crashed"
    /\ (BeforeFirstPhase /\ (~dir_exists \/ files = {})) => checkpoint = None
    /\ (Len(phases) = 1 /\ loaded = None /\ AtPhaseBegin) =>
           start_epoch = 0 /\ step = 0 /\ best_loss = Inf

\* C6: within one run no two save_checkpoint calls write to the same file: a
\* file once written is not written again by a later save, across epochs and
\* across the pretraining and classification phases.
C6_NoFileWrittenTwice ==
    \A a, b \in 1..Len(writes) : a # b => writes[a] # writes[b]

\* C7: a run killed after at least one checkpoint was saved and started again
\* resumes from the checkpoint written most recently.
C7_ResumesFromLastSaved ==
    (BeforeFirstPhase /\ prev_exit = "killed" /\ last_saved # <<>>) =>
        /\ checkpoint # None
        /\ FileName(checkpoint.step) = last_saved
        /\ checkpoint = torch_load(files, last_saved)

\* C8: the step counter of a phase grows by exactly one per processed batch,
\* also from the last batch of an epoch to the first of the next, is changed
\* by nothing else during the phase, and starts from the checkpoint's stored
\* step when the phase resumes from a checkpoint (from 0 otherwise).
C8_StepCountsBatches ==
    [][/\ (pc = "loop" /\ pc' # "killed") => step' = step + 1
       /\ (pc \in {"torch_save", "phase_end"} /\ pc' # "killed") => step' = step
       /\ (pc = "phase_start" /\ pc' # "killed") =>
              step' = IF checkpoint # None THEN checkpoint.step ELSE 0]_vars

C8_Witness ==
    /\ pc = "loop"
    /\ Len(phases) = 1
    /\ loaded # None
    /\ epoch > start_epoch
    /\ step > loaded.step + 1

\* C9: best_loss never becomes larger during a run: not at a training step, not
\* at the restore at the start of a phase, not at the change from the
\* pretraining phase to the classification phase.
C9_BestLossNonIncreasing ==
    [][pc' \notin {"killed", "not_started"} => best_loss' <= best_loss]_vars

C9_Witness ==
    /\ pc = "loop"
    /\ Len(phases) = 2
    /\ loaded # None
    /\ best_loss < loaded.best_loss
    /\ min_phase > best_loss

\* the phase has processed at least one batch
BatchesSeen == pc \in {"loop", "torch_save", "phase_end", "done"} /\ min_phase # Inf

\* C10: after N steps of a phase best_loss equals the minimum of all per-step
\* loss values observed in that phase up to step N, for every LOG_STEP and also
\* in a classification phase that follows a pretraining phase.
C10_BestLossIsPhaseMinimum ==
    BatchesSeen => best_loss = min_phase

\* C10 as amended: best_loss equals the minimum of the best_loss restored from
\* the checkpoint loaded at run start (+infinity if none was loaded) and the
\* losses of the logged steps (step % LOG_STEP = 0) of all phases of the run so
\* far.
C10_BestLossIsLoggedMinimumOfRun ==
    Len(phases) >= 1 =>
        best_loss = Min(IF loaded # None THEN loaded.best_loss ELSE Inf, min_logged)

C10_Witness ==
    /\ BatchesSeen
    /\ Len(phases) = 2
    /\ loaded # None
    /\ min_logged # Inf
    /\ best_loss # min_phase

\* whether step s passes a gate `step >= WARMUP_STEPS and step % interval == 0`
GateOpen(s, interval) == s >= WARMUP_STEPS /\ s % interval = 0

\* C11: a worker whose rank is not 0 writes no checkpoint file, runs no
\* evaluation, emits no scalar and does not update best_loss, at any step;
\* only the worker of rank 0 does.
C11_OnlyRankZeroHasSideEffects ==
    rank # 0 =>
        /\ pc # "torch_save"
        /\ writes = <<>> /\ files = {} /\ ~dir_exists
        /\ evals = {} /\ metrics = NoMetrics
        /\ scalars = 0
        /\ best_loss = Inf

C11_Witness ==
    /\ rank # 0
    /\ pc = "done"
    /\ \E r \in reached :
           /\ GateOpen(r[2], SAVE_STEP)
           /\ GateOpen(r[2], EVAL_STEP)
           /\ r[2] % LOG_STEP = 0

\* C12: on the coordinating worker a checkpoint is saved at step s iff
\* s >= WARMUP_STEPS and s mod SAVE_STEP = 0, an evaluation is run at step s iff
\* s >= WARMUP_STEPS and s mod EVAL_STEP = 0; no file and no evaluation has a
\* step below WARMUP_STEPS, also in a run resumed from a checkpoint.
C12_SaveAndEvalGates ==
    [][/\ (pc = "loop" /\ pc' = "torch_save") => GateOpen(step', SAVE_STEP)
       /\ (pc \in {"loop", "torch_save"} /\ pc' \in {"loop", "phase_end"}) =>
              /\ pc = "torch_save" <=> GateOpen(step', SAVE_STEP)
              /\ pc = "torch_save" =>
                     /\ writes' = Append(writes, FileName(step'))
                     /\ FileName(step') \in iterdir(files')
              /\ pc = "loop" => writes' = writes /\ files' = files
              /\ <<phase_name, step'>> \in evals' <=> GateOpen(step', EVAL_STEP)
              /\ evals' \subseteq evals \cup {<<phase_name, step'>>}
       /\ \A f \in files' : StemInt(f.stem) >= WARMUP_STEPS
       /\ \A e \in evals' : e[2] >= WARMUP_STEPS]_vars

C12_Witness ==
    /\ WARMUP_STEPS > 1
    /\ loaded # None
    /\ writes # <<>>
    /\ evals # {}
    /\ \E r \in reached : ~GateOpen(r[2], SAVE_STEP) /\ ~GateOpen(r[2], EVAL_STEP)

\* no batch trained by this process in one of the phases ps passed the save
\* gate or the evaluation gate
NoGateOpenIn(ps) ==
    \A r \in reached :
        r[1] \in ps => ~GateOpen(r[2], SAVE_STEP) /\ ~GateOpen(r[2], EVAL_STEP)

\* C13: if no step reached during the classification phase passes the save gate
\* or the evaluation gate, the run writes no checkpoint, performs no evaluation
\* and train_and_evaluate_model returns an empty metrics mapping.
C13_QuietClassificationQuietRun ==
    (pc = "done" /\ NoGateOpenIn({CLASSIFICATION})) =>
        writes = <<>> /\ evals = {} /\ returned = NoMetrics

\* C13 as amended: if no step reached during any phase of the run, the
\* pretraining phase included, passes the save gate or the evaluation gate, the
\* run writes no checkpoint, performs no evaluation and returns an empty
\* metrics mapping.
C13_QuietRun ==
    (pc = "done" /\ NoGateOpenIn(PHASE)) =>
        writes = <<>> /\ evals = {} /\ returned = NoMetrics

C13_Witness ==
    /\ pc = "done"
    /\ NoGateOpenIn(PHASE)
    /\ Len(phases) = 2
    /\ Cardinality(reached) >= 2

\* the evaluations of this process in the classification phase
ClassificationEvals == {e \in evals : e[1] = CLASSIFICATION}

\* C14: when at least one evaluation ran in the classification phase, the
\* returned mapping has exactly the keys 'Test Loss' and 'Test Accuracy' and is
\* the result of the last evaluation of that phase; metrics of an evaluation of
\* the pretraining phase are never returned.
C14_ReturnsLastClassificationEval ==
    pc = "done" =>
        /\ ClassificationEvals # {} =>
               /\ returned.keys = {"Test Loss", "Test Accuracy"}
               /\ <<returned.phase, returned.step>> \in ClassificationEvals
               /\ \A e \in ClassificationEvals : e[2] <= returned.step
        /\ ClassificationEvals = {} => returned = NoMetrics
        /\ returned # NoMetrics => returned.phase = CLASSIFICATION

C14_Witness ==
    /\ pc = "done"
    /\ Len(phases) = 2
    /\ \E e \in evals : e[1] = AUTOREGRESSIVE
    /\ Cardinality(ClassificationEvals) >= 2

\* C15: without a pretrain dataset the AUTOREGRESSIVE phase is never entered,
\* whatever checkpoints the program has written under the run's directory: the
\* run goes from its start directly to the CLASSIFICATION phase.
C15_NoPretrainDatasetNoPretraining ==
    ~pretrain_dataset =>
        /\ phase_name # AUTOREGRESSIVE
        /\ \A k \in 1..Len(phases) : phases[k] = CLASSIFICATION
        /\ Len(phases) <= 1
        /\ \A f \in files : ~f.content.during_pretraining

C15_Witness ==
    /\ ~pretrain_dataset
    /\ loaded # None
    /\ phases = <<CLASSIFICATION>>
    /\ pc = "loop"

\* the batches this process has trained in the current phase
BatchesOfPhase == Cardinality({r \in reached : r[1] = phase_name})

\* C16: a run that is not terminated from outside reaches the end of
\* train_and_evaluate_model: it never stops anywhere else; AUTOREGRESSIVE is
\* executed at most once and only before CLASSIFICATION, CLASSIFICATION once
\* and last; the loop of a phase ends after exactly
\* (epochs - start epoch) * (batches per epoch) steps.
C16_RunReachesDone ==
    /\ pc \notin {"crashed", "zero_division"}
    /\ phases \in {<<>>, <<AUTOREGRESSIVE>>, <<CLASSIFICATION>>,
                   <<AUTOREGRESSIVE, CLASSIFICATION>>}
    /\ pc = "done" => phases[Len(phases)] = CLASSIFICATION
    /\ pc \in {"phase_end", "done"} =>
           BatchesOfPhase = (epochs - start_epoch) * len_data_loader[phase_name]

\* C17: every checkpoint save_checkpoint writes has during_pretraining = true
\* iff the phase writing it is AUTOREGRESSIVE, a step field equal to the
\* integer of its file name, the index of the epoch in progress
\* (0 <= epoch < epochs) and the trainer's best_loss at the moment of the save.
C17_CheckpointRecordsItsOrigin ==
    [][(pc = "torch_save" /\ pc' # "killed") =>
           \E f \in files' :
               /\ writes' = Append(writes, f.stem)
               /\ f.content.step = StemInt(f.stem)
               /\ f.content.step = step
               /\ f.content.during_pretraining <=> phase_name = AUTOREGRESSIVE
               /\ f.content.epoch = epoch
               /\ 0 <= f.content.epoch /\ f.content.epoch < epochs
               /\ f.content.best_loss = best_loss
               /\ f.content.model_state_dict = model
               /\ f.content.optimizer_state_dict = optimizer]_vars

C17_Witness ==
    /\ Len(writes) >= 2
    /\ phase_name = CLASSIFICATION
    /\ \E f \in files :
           /\ f.content.during_pretraining
           /\ f.content.epoch >= 1
           /\ f.content.best_loss < Inf
    /\ \E f \in files : ~f.content.during_pretraining

RECURSIVE SumSeq(_)
SumSeq(q) == IF q = <<>> THEN 0 ELSE q[1] + SumSeq(Tail(q))

\* ceil(m / b): the least n with n * b >= m
Ceil(m, b) == CHOOSE n \in 0..m : n * b >= m /\ (n = 0 \/ (n - 1) * b < m)

\* C18: on a split of M >= 1 examples with batch size B >= 1 _evaluate_model
\* returns 'Test Accuracy' = 100 * (examples whose prediction equals the label)
\* / M, which lies in [0, 100], and 'Test Loss' = (sum of the per-batch
\* losses) / ceil(M / B), over exactly ceil(M / B) batches.
C18_EvaluationMetrics ==
    LET M == Len(examples)
        right == Cardinality({k \in 1..M : examples[k].predicted = examples[k].label})
        acc == eval_result["Test Accuracy"]
        loss == eval_result["Test Loss"]
    IN  /\ M >= 1 => eval_pc # "zero_division"
        /\ eval_pc = "returned" =>
               /\ DOMAIN eval_result = {"Test Loss", "Test Accuracy"}
               /\ acc[2] > 0 /\ loss[2] > 0
               /\ acc[1] * M = 100 * right * acc[2]
               /\ 0 <= acc[1] /\ acc[1] <= 100 * acc[2]
               /\ Len(batch_losses) = Ceil(M, batch_size)
               /\ loss[1] * Ceil(M, batch_size) = SumSeq(batch_losses) * loss[2]

C18_Witness ==
    /\ eval_pc = "returned"
    /\ Len(examples) >= 3
    /\ batch_size >= 2
    /\ Len(examples) % batch_size # 0
    /\ correct \notin {0, total}
    /\ \E j, k \in 1..Len(batch_losses) : batch_losses[j] # batch_losses[k]

\* C19: an evaluation of a split with no examples is not guarded: the
\* evaluation that is due fails with the division error instead of returning
\* metrics, nothing catches it, the phase loop and the run end there and the
\* run returns no metrics mapping.
C19_EmptySplitEndsTheRun ==
    [][/\ (/\ pc \in {"loop", "torch_save"}
           /\ pc' \notin {"killed", "torch_save"}
           /\ is_master_process /\ eval_due(step') /\ len_test[phase_name] = 0)
          => (/\ pc' = "zero_division"
              /\ metrics' = metrics /\ evals' = evals
              /\ returned' = None)
       /\ pc' = "zero_division" =>
              /\ pc \in {"loop", "torch_save"}
              /\ len_test[phase_name] = 0 /\ eval_due(step')
       /\ pc = "zero_division" =>
              /\ returned = None
              /\ pc' = "not_started" /\ run' = run + 1]_vars

C19_Witness ==
    /\ pc = "zero_division"
    /\ phase_name = CLASSIFICATION
    /\ len_test[CLASSIFICATION] = 0
    /\ phases = <<AUTOREGRESSIVE, CLASSIFICATION>>
    /\ writes # <<>>

\* C20: a checkpoint is sufficient to resume exactly: a phase that was killed
\* after a save and resumed from that checkpoint ends with the step counter of
\* an uninterrupted run, epochs * batches, and the model has then been trained
\* on that many batches over both executions, none twice and none skipped.
\* (Stated for runs without a pretraining dataset, whose only phase is
\* CLASSIFICATION, so that the resumed phase is the phase of the checkpoint.)
C20_ResumeIsExact ==
    (/\ ~pretrain_dataset
     /\ prev_exit = "killed"
     /\ loaded # None
     /\ pc = "phase_end") =>
        /\ step = epochs * len_data_loader[phase_name]
        /\ model.updates = epochs * len_data_loader[phase_name]

\* the worker of rank r has been through load_checkpoint in this start of the run
HasLoaded(r) ==
    worker[r].pc \notin {"not_started", "init_process_group", "killed"}

====
